---- MODULE Spec2Model ----
(***************************************************************************)
(* A model of hitta's ranking-and-navigation engine (src/hitta/__init__.py)*)
(*                                                                         *)
(*   - ResultList / ResultStack: the navigation stack of result lists      *)
(*   - FileSearchProvider: the external "locate" search, its handle slot   *)
(*     and its completion callback                                         *)
(*   - AppSearchProvider: the in-memory application search and its scorer  *)
(*   - HittaWindow: the event handlers (keys, input changes, the debounce  *)
(*     timer, provider result callback)                                    *)
(*                                                                         *)
(* Python strings are sequences of one-character strings, so that lower(), *)
(* strip(), split() and the substring test are computed, not assumed.      *)
(* Python floats that are multiples of 0.05 are integers scaled by Scale.  *)
(***************************************************************************)
EXTENDS Integers, Sequences, FiniteSets, TLC

VARIABLES
    lists,               \* the ResultList objects alive: id -> [items, selected]
    _stack,              \* ResultStack._stack: sequence of list ids
    _search_states,      \* ResultStack._search_states: sequence of <<query, original_items>>
    input,               \* the text of HittaWindow.input's buffer
    visible,             \* whether the window is shown
    _search_timeout_id,  \* HittaWindow._search_timeout_id: None or a source id
    timeouts,            \* GLib timeout sources pending: id -> search_text
    _current_subprocess, \* FileSearchProvider._current_subprocess: None or a process id
    procs,               \* locate processes whose completion is not yet dispatched
    last,                \* history: the operation or event that produced this state
    root_before_push,    \* history: root items when the stack left Root, while only
                         \*          push_actions/pop_stack have run since
    trip,                \* history: progress of push_actions, search_current_level(x),
                         \*          search_current_level("") run back to back
    newest,              \* history: the most recently spawned file search and its results
    scoring              \* history: the last call of a scorer or a provider made on
                         \*          its own, with its arguments and its result

vars == <<lists, _stack, _search_states, input, visible, _search_timeout_id,
          timeouts, _current_subprocess, procs, last, root_before_push, trip,
          newest, scoring>>

stackVars  == <<lists, _stack, _search_states>>
windowVars == <<input, _search_timeout_id, timeouts>>
fileVars   == <<_current_subprocess, procs>>

\* Python's None, where a field holds None or an id (ids are positive)
None == -1

(***************************************************************************)
(* Strings                                                                 *)
(***************************************************************************)
UpperLetters == <<"A","B","C","D","E","F","G","H","I","J","K","L","M",
                  "N","O","P","Q","R","S","T","U","V","W","X","Y","Z">>
LowerLetters == <<"a","b","c","d","e","f","g","h","i","j","k","l","m",
                  "n","o","p","q","r","s","t","u","v","w","x","y","z">>
Digits == {"0","1","2","3","4","5","6","7","8","9"}

Range(s) == {s[i] : i \in DOMAIN s}

UpperSet == Range(UpperLetters)
AlnumSet == Range(UpperLetters) \cup Range(LowerLetters) \cup Digits
LowerOf ==
    [c \in UpperSet |->
        LowerLetters[CHOOSE i \in DOMAIN UpperLetters : UpperLetters[i] = c]]

\* str.isupper / str.isalnum / str.isspace of one character
isupper(c) == c \in UpperSet
isalnum(c) == c \in AlnumSet
isspace(c) == c \in {" ", "\n", "\t"}

\* str.lower of one character, and of a string
lower_char(c) == IF isupper(c) THEN LowerOf[c] ELSE c
lower(s) == [i \in DOMAIN s |-> lower_char(s[i])]

\* s[a:b] with 0-based Python bounds, 0 <= a, b <= len(s)
Slice(s, a, b) == IF b <= a THEN <<>> ELSE SubSeq(s, a + 1, b)

\* whether sub occurs in s at the 0-based index i
occurs_at(s, sub, i) ==
    /\ i + Len(sub) <= Len(s)
    /\ \A k \in 1..Len(sub) : s[i + k] = sub[k]

\* the Python test `sub in s`
contains(s, sub) == \E i \in 0..(Len(s) - Len(sub)) : occurs_at(s, sub, i)

\* str.find(sub): the lowest 0-based index where sub occurs, -1 if none
find(s, sub) ==
    IF contains(s, sub)
    THEN CHOOSE i \in 0..(Len(s) - Len(sub)) :
            /\ occurs_at(s, sub, i)
            /\ \A j \in 0..(i - 1) : ~occurs_at(s, sub, j)
    ELSE -1

startswith(s, prefix) == occurs_at(s, prefix, 0)

\* str.strip(): leading and trailing whitespace removed
strip(s) ==
    LET keep == {i \in DOMAIN s : ~isspace(s[i])}
    IN IF keep = {} THEN <<>>
       ELSE LET lo == CHOOSE i \in keep : \A j \in keep : i <= j
                hi == CHOOSE i \in keep : \A j \in keep : j <= i
            IN SubSeq(s, lo, hi)

(***************************************************************************)
(* Actions (items)                                                         *)
(***************************************************************************)
\* An item is an object of an Action subclass, kept as its class (kind) and
\* the arguments of its constructor: the file path and the application's
\* display name, each empty where the class has none.  Its name and
\* description are what the constructor passes to Action.__init__.
Object(kind, file, app) == [kind |-> kind, file |-> file, app |-> app]

OpenContainingFolder(file) == Object("OpenContainingFolder", file, <<>>)
CopyFilePath(file) == Object("CopyFilePath", file, <<>>)
CopyFileName(file) == Object("CopyFileName", file, <<>>)
\* default_app_info and all_app_infos are looked up from the file when the
\* item's actions are asked for
OpenWith(file) == Object("OpenWith", file, <<>>)
OpenWithSpecificApp(file, display_name) == Object("OpenWithSpecificApp", file, display_name)
ApplicationSearchResult(app_info) ==
    Object("ApplicationSearchResult", app_info.description, app_info.display_name)
FileSearchResult(filepath) == Object("FileSearchResult", filepath, <<>>)

sep == "/"

\* str.rfind of a character: the highest 0-based index, -1 if none
rfind(s, c) ==
    LET hits == {i \in DOMAIN s : s[i] = c}
    IN IF hits = {} THEN -1 ELSE (CHOOSE i \in hits : \A j \in hits : j <= i) - 1

\* os.path.basename / os.path.dirname (posixpath)
basename(path) == Slice(path, rfind(path, sep) + 1, Len(path))
dirname(path) ==
    LET head == Slice(path, 0, rfind(path, sep) + 1)
        nonsep == {i \in DOMAIN head : head[i] # sep}
    IN IF nonsep = {} THEN head
       ELSE SubSeq(head, 1, CHOOSE i \in nonsep : \A j \in nonsep : j <= i)

\* item.name: the name argument of each class's super().__init__ call
name_of(item) ==
    CASE item.kind = "OpenContainingFolder" ->
           <<"O","p","e","n"," ","c","o","n","t","a","i","n","i","n","g"," ","d","i","r","e","c","t","o","r","y">>
      [] item.kind = "CopyFilePath" ->
           <<"C","o","p","y"," ","f","i","l","e"," ","p","a","t","h">>
      [] item.kind = "CopyFileName" ->
           <<"C","o","p","y"," ","f","i","l","e"," ","n","a","m","e">>
      [] item.kind = "OpenWith" ->
           <<"O","p","e","n"," ","w","i","t","h",".",".",".">>
      [] item.kind = "OpenWithSpecificApp" ->
           <<"O","p","e","n"," ","w","i","t","h"," ">> \o item.app
      [] item.kind = "ApplicationSearchResult" -> item.app
      [] item.kind = "FileSearchResult" -> basename(item.file)

\* item.description: the description argument of each class's super().__init__ call
description_of(item) ==
    CASE item.kind = "OpenContainingFolder" ->
           <<"O","p","e","n"," ","t","h","e"," ","f","o","l","d","e","r"," ","t","h","a","t"," ","c","o","n","t","a","i","n","s"," ","t","h","i","s"," ","f","i","l","e">>
      [] item.kind = "CopyFilePath" ->
           <<"C","o","p","y"," ","t","h","e"," ","f","u","l","l"," ","f","i","l","e"," ","p","a","t","h"," ","t","o"," ","c","l","i","p","b","o","a","r","d">>
      [] item.kind = "CopyFileName" ->
           <<"C","o","p","y"," ","t","h","e"," ","f","i","l","e"," ","n","a","m","e"," ","t","o"," ","c","l","i","p","b","o","a","r","d">>
      [] item.kind = "OpenWith" ->
           <<"C","h","o","o","s","e"," ","a","p","p","l","i","c","a","t","i","o","n"," ","t","o"," ","o","p","e","n"," ","f","i","l","e"," ","w","i","t","h">>
      [] item.kind = "OpenWithSpecificApp" ->
           <<"O","p","e","n"," ","f","i","l","e"," ","u","s","i","n","g"," ">> \o item.app
      [] item.kind = "ApplicationSearchResult" -> item.file
      [] item.kind = "FileSearchResult" -> dirname(item.file)

(***************************************************************************)
(* ResultList                                                              *)
(***************************************************************************)
\* Gtk.INVALID_LIST_POSITION is G_MAXUINT, (guint) -1: no position of a list
INVALID_LIST_POSITION == -1

\* ResultList.__init__: an empty list model, nothing selected
ResultList == [items |-> <<>>, selected |-> INVALID_LIST_POSITION]

\* set_items that splices the new items in after the old ones
set_items_appending(list, items) ==
    [items    |-> list.items \o items,
     selected |-> IF Len(list.items \o items) > 0 THEN 0 ELSE INVALID_LIST_POSITION]

\* ResultList.set_items: splice the whole model, select the first item if any
\* (an empty Gtk.SingleSelection has no selected position)
set_items(list, items) ==
    [items    |-> items,
     selected |-> IF Len(items) > 0 THEN 0 ELSE INVALID_LIST_POSITION]

\* navigate_list that stops at the ends of the list
navigate_list_clamping(list, direction) ==
    LET n_items == Len(list.items)
        current == list.selected
        stepped == current + direction
        new_selection ==
            IF current = INVALID_LIST_POSITION THEN 0
            ELSE IF stepped < 0 THEN 0
            ELSE IF stepped >= n_items THEN n_items - 1
            ELSE stepped
    IN IF n_items = 0 THEN list
       ELSE [list EXCEPT !.selected = new_selection]

\* ResultList.navigate_list
navigate_list(list, direction) ==
    LET n_items == Len(list.items)
        current == list.selected
        stepped == current + direction
        new_selection ==
            IF current = INVALID_LIST_POSITION THEN 0
            ELSE IF stepped < 0 THEN n_items - 1
            ELSE IF stepped >= n_items THEN 0
            ELSE stepped
    IN IF n_items = 0 THEN list
       ELSE [list EXCEPT !.selected = new_selection]

\* ResultList.get_selected
get_selected(list) ==
    IF list.selected # INVALID_LIST_POSITION
    THEN list.items[list.selected + 1]
    ELSE None

(***************************************************************************)
(* ResultStack, as operators on rs = [lists, stack, search_states]         *)
(***************************************************************************)
\* ResultStack.search_result: the id of the list created by __init__
search_result == 0

RS(l, s, ss) == [lists |-> l, stack |-> s, search_states |-> ss]

\* ResultStack.__init__
ResultStackInit ==
    RS([i \in {search_result} |-> ResultList], <<search_result>>, << <<<<>>, <<>>>> >>)

Last(s) == s[Len(s)]
Front(s) == SubSeq(s, 1, Len(s) - 1)
SetLast(s, v) == [s EXCEPT ![Len(s)] = v]

\* ResultStack.get_current_list
get_current_list(rs) == Last(rs.stack)

\* ResultStack.is_at_search_level
is_at_search_level(rs) == Len(rs.stack) <= 1

\* the filter loop of search_current_level
filtered_items(original_items, query) ==
    LET query_lower == lower(query)
    IN SelectSeq(original_items,
                 LAMBDA item : \/ contains(lower(name_of(item)), query_lower)
                               \/ contains(lower(description_of(item)), query_lower))

\* search_current_level that compares the query as typed with the lowered texts
search_current_level_case_sensitive(rs, query) ==
    IF Len(rs.stack) <= 1 THEN rs
    ELSE LET current_list   == Last(rs.stack)
             original_items == Last(rs.search_states)[2]
             shown == IF query = <<>> THEN original_items
                      ELSE SelectSeq(original_items,
                               LAMBDA item :
                                   \/ contains(lower(name_of(item)), query)
                                   \/ contains(lower(description_of(item)), query))
         IN RS([rs.lists EXCEPT ![current_list] = set_items(@, shown)],
               rs.stack,
               SetLast(rs.search_states, <<query, original_items>>))

\* search_current_level that stores what it displays as the level's originals
search_current_level_keeping_filtered(rs, query) ==
    IF Len(rs.stack) <= 1 THEN rs
    ELSE LET current_list   == Last(rs.stack)
             original_items == Last(rs.search_states)[2]
             shown == IF query = <<>> THEN original_items
                      ELSE filtered_items(original_items, query)
         IN RS([rs.lists EXCEPT ![current_list] = set_items(@, shown)],
               rs.stack,
               SetLast(rs.search_states, <<query, shown>>))

\* ResultStack.search_current_level
search_current_level(rs, query) ==
    IF Len(rs.stack) <= 1 THEN rs
    ELSE LET current_list   == Last(rs.stack)
             original_items == Last(rs.search_states)[2]
             shown == IF query = <<>> THEN original_items
                      ELSE filtered_items(original_items, query)
         IN RS([rs.lists EXCEPT ![current_list] = set_items(@, shown)],
               rs.stack,
               SetLast(rs.search_states, <<query, original_items>>))

\* get_current_search_query that forgets the stored query
get_current_search_query_forgetting(rs) == <<>>

\* ResultStack.get_current_search_query
get_current_search_query(rs) ==
    IF Len(rs.search_states) > 0 THEN Last(rs.search_states)[1] ELSE <<>>

\* update_current_search_state that stores the displayed items as originals
update_current_search_state_storing_items(rs, query) ==
    IF Len(rs.search_states) > 0
    THEN RS(rs.lists, rs.stack,
            SetLast(rs.search_states, <<query, rs.lists[Last(rs.stack)].items>>))
    ELSE rs

\* ResultStack.update_current_search_state
update_current_search_state(rs, query) ==
    IF Len(rs.search_states) > 0
    THEN RS(rs.lists, rs.stack,
            SetLast(rs.search_states, <<query, Last(rs.search_states)[2]>>))
    ELSE rs

\* a list id not in use (ActionList(...) creates a new object)
NewListId(rs) == CHOOSE i \in 0..Cardinality(DOMAIN rs.lists) : i \notin DOMAIN rs.lists

\* push_actions without the test for an empty list
push_actions_accepting_empty(rs, actions) ==
    LET action_list == NewListId(rs)
    IN RS([i \in DOMAIN rs.lists \cup {action_list} |->
               IF i = action_list THEN set_items(ResultList, actions)
               ELSE rs.lists[i]],
          Append(rs.stack, action_list),
          Append(rs.search_states, <<<<>>, actions>>))

\* push_actions that fills the list on top instead of the new one
push_actions_filling_current(rs, actions) ==
    IF Len(actions) = 0 THEN rs
    ELSE LET action_list == NewListId(rs)
         IN RS([i \in DOMAIN rs.lists \cup {action_list} |->
                    IF i = action_list THEN ResultList
                    ELSE IF i = Last(rs.stack) THEN set_items(rs.lists[i], actions)
                    ELSE rs.lists[i]],
               Append(rs.stack, action_list),
               Append(rs.search_states, <<<<>>, actions>>))

\* push_actions that stores no originals for the new level
push_actions_without_originals(rs, actions) ==
    IF Len(actions) = 0 THEN rs
    ELSE LET action_list == NewListId(rs)
         IN RS([i \in DOMAIN rs.lists \cup {action_list} |->
                    IF i = action_list THEN set_items(ResultList, actions)
                    ELSE rs.lists[i]],
               Append(rs.stack, action_list),
               Append(rs.search_states, <<<<>>, <<>>>>))

\* ResultStack.push_actions
push_actions(rs, actions) ==
    IF Len(actions) = 0 THEN rs
    ELSE LET action_list == NewListId(rs)
         IN RS([i \in DOMAIN rs.lists \cup {action_list} |->
                    IF i = action_list THEN set_items(ResultList, actions)
                    ELSE rs.lists[i]],
               Append(rs.stack, action_list),
               Append(rs.search_states, <<<<>>, actions>>))

\* the lists still referenced: those on the stack and search_result
Collect(rs) ==
    RS([i \in Range(rs.stack) \cup {search_result} |-> rs.lists[i]],
       rs.stack, rs.search_states)

\* pop_stack that leaves the popped level's search state behind
pop_stack_keeping_state(rs) ==
    IF Len(rs.stack) <= 1 THEN rs
    ELSE Collect(RS(rs.lists, Front(rs.stack), rs.search_states))

\* pop_stack without the test of the depth
pop_stack_unguarded(rs) ==
    Collect(RS(rs.lists, Front(rs.stack), Front(rs.search_states)))

\* ResultStack.pop_stack: the state afterwards, and the value returned
pop_stack(rs) ==
    IF Len(rs.stack) <= 1 THEN rs
    ELSE Collect(RS(rs.lists, Front(rs.stack), Front(rs.search_states)))
pop_stack_result(rs) == ~(Len(rs.stack) <= 1)

\* reset_to_search_results that leaves the root list's items in place
reset_to_search_results_keeping_items(rs) ==
    Collect(RS(rs.lists, SubSeq(rs.stack, 1, 1), << <<<<>>, <<>>>> >>))

\* ResultStack.reset_to_search_results
reset_to_search_results(rs) ==
    LET popped == RS(rs.lists, SubSeq(rs.stack, 1, 1), << <<<<>>, <<>>>> >>)
    IN Collect([popped EXCEPT
                    !.lists[search_result] = set_items(@, <<>>)])

\* the ResultStack of this state
Stack == RS(lists, _stack, _search_states)
SetStack(rs) ==
    /\ lists' = rs.lists
    /\ _stack' = rs.stack
    /\ _search_states' = rs.search_states

Depth == Len(_stack)
RootItems == lists[search_result].items

(***************************************************************************)
(* Scores: Python floats in units of 1/Scale                               *)
(***************************************************************************)
\* the scorer adds multiples of 0.1, and _has_fuzzy_match halves the result
Scale == 2 * 10

Max(a, b) == IF a >= b THEN a ELSE b
Min(a, b) == IF a <= b THEN a ELSE b

\* the word-boundary test `i == 0 or not text[i - 1].isalnum()`, i 0-based
at_boundary(text, i) == i = 0 \/ ~isalnum(text[i])

\* the character loops of _fuzzy_match_score (lines 499-550): the state of the
\* loops is (text_idx, query_idx, score, consecutive_bonus, gap_penalty), and
\* gap_start is text_idx when the scan for query[query_idx] begins.
\* The result is <<matched, score, gap_penalty, bonuses>>; bonuses lists, for
\* the characters matched from here on, the consecutive_bonus that line 527
\* added to char_score.
RECURSIVE scan(_, _, _, _, _, _, _, _)
scan(text, query, text_idx, gap_start, query_idx, score, consecutive_bonus, gap_penalty) ==
    IF query_idx >= Len(query) THEN <<TRUE, score, gap_penalty, <<>> >>
    ELSE IF text_idx >= Len(text) THEN <<FALSE, 0, 0, <<>> >>
    ELSE IF lower_char(text[text_idx + 1]) = lower_char(query[query_idx + 1])
    THEN LET case_bonus == IF text[text_idx + 1] = query[query_idx + 1]
                           THEN Scale \div 2 ELSE 0
             place_bonus == IF at_boundary(text, text_idx) THEN 2 * Scale
                            ELSE IF isupper(text[text_idx + 1]) THEN Scale
                            ELSE 0
             char_score == Scale + case_bonus + place_bonus
                           + (IF consecutive_bonus > 0 THEN consecutive_bonus ELSE 0)
             bonus_after == IF consecutive_bonus > 0
                            THEN consecutive_bonus + Scale \div 2
                            ELSE Scale \div 2
             gap_size == text_idx - gap_start
             \* line 546: reset unless this was the last query character
             bonus_next == IF query_idx + 1 < Len(query) THEN 0 ELSE bonus_after
             added == IF consecutive_bonus > 0 THEN consecutive_bonus ELSE 0
             rest == scan(text, query, text_idx + 1, text_idx + 1, query_idx + 1,
                          score + char_score, bonus_next,
                          gap_penalty + gap_size * (Scale \div 10))
         IN <<rest[1], rest[2], rest[3], <<added>> \o rest[4]>>
    ELSE scan(text, query, text_idx + 1, gap_start, query_idx,
              score, consecutive_bonus, gap_penalty)

\* _fuzzy_match_score that still grants the length bonus when the scan fails
_fuzzy_match_score_partial(text, query) ==
    LET text_lower  == lower(text)
        query_lower == lower(query)
        pos == find(text_lower, query_lower)
        r == scan(text, query, 0, 0, 0, 0, 0, 0)
        final_score == Max(0, r[2] - r[3]) + Max(0, 10 - Len(text) \div 2) * Scale
        min_score == Len(query) * (Scale \div 2)
    IN IF query = <<>> \/ text = <<>> THEN 0
       ELSE IF Len(query) = 1 /\ Len(text) > 50 THEN 0
       ELSE IF pos # -1
       THEN (100 + Max(0, 20 - pos) + (IF at_boundary(text, pos) THEN 20 ELSE 0)) * Scale
       ELSE IF Len(text) > 100 /\ Len(query) < 3 THEN 0
       ELSE IF final_score >= min_score THEN final_score ELSE 0

\* AppSearchProvider._fuzzy_match_score
_fuzzy_match_score(text, query) ==
    LET text_lower  == lower(text)
        query_lower == lower(query)
        pos == find(text_lower, query_lower)
        r == scan(text, query, 0, 0, 0, 0, 0, 0)
        final_score == Max(0, r[2] - r[3]) + Max(0, 10 - Len(text) \div 2) * Scale
        min_score == Len(query) * (Scale \div 2)
    IN IF query = <<>> \/ text = <<>> THEN 0
       ELSE IF Len(query) = 1 /\ Len(text) > 50 THEN 0
       ELSE IF pos # -1
       THEN (100 + Max(0, 20 - pos) + (IF at_boundary(text, pos) THEN 20 ELSE 0)) * Scale
       ELSE IF Len(text) > 100 /\ Len(query) < 3 THEN 0
       ELSE IF ~r[1] THEN 0
       ELSE IF final_score >= min_score THEN final_score ELSE 0

\* _has_fuzzy_match that falls back to the description for any query length
_has_fuzzy_match_any_length(name, description, query) ==
    LET score == _fuzzy_match_score(name, query)
        desc_score == _fuzzy_match_score(description, query)
    IN IF score > 0 THEN <<score, TRUE>>
       ELSE IF desc_score > 0 THEN <<desc_score \div 2, TRUE>>
       ELSE <<0, FALSE>>

\* AppSearchProvider._has_fuzzy_match: <<score, matches>>
_has_fuzzy_match(name, description, query) ==
    LET score == _fuzzy_match_score(name, query)
        desc_score == _fuzzy_match_score(description, query)
    IN IF score > 0 THEN <<score, TRUE>>
       ELSE IF Len(query) <= 3 /\ desc_score > 0 THEN <<desc_score \div 2, TRUE>>
       ELSE <<0, FALSE>>

\* AppSearchProvider._score_app_match
_score_app_match(name, description, query, score) ==
    IF Len(name) < 20 THEN score + 2 * Scale ELSE score

\* list.sort(key=score, reverse=True): stable, highest score first;
\* scored is a sequence of <<score, x>>
RECURSIVE sort_by_score(_)
sort_by_score(scored) ==
    IF scored = <<>> THEN <<>>
    ELSE LET best == CHOOSE i \in DOMAIN scored :
                        /\ \A j \in DOMAIN scored : scored[j][1] <= scored[i][1]
                        /\ \A j \in 1..(i - 1) : scored[j][1] < scored[i][1]
         IN <<scored[best]>> \o
            sort_by_score(SubSeq(scored, 1, best - 1) \o
                          SubSeq(scored, best + 1, Len(scored)))

\* the slice [:50] of the sorted results
ResultLimit == 50

\* the sorted results without the slice
top_results_uncapped(sorted) == sorted

top_results(sorted) == SubSeq(sorted, 1, Min(Len(sorted), ResultLimit))

(***************************************************************************)
(* AppSearchProvider                                                       *)
(***************************************************************************)
AppInfo(display_name, description, should_show) ==
    [display_name |-> display_name, description |-> description,
     should_show |-> should_show]

\* Gio.AppInfo.get_all(): the installed applications
_app_infos ==
    << AppInfo(<<"F","i","r","e","f","o","x">>, <<>>, TRUE),
       AppInfo(<<"F","i","l","e","s">>, <<>>, TRUE),
       AppInfo(<<"T","e","r","m","i","n","a","l">>, <<>>, TRUE) >>

\* AppSearchProvider.search: the list handed to the callback
AppSearch(app_infos, query) ==
    LET query_lower == lower(query)
        visible_apps == SelectSeq(app_infos, LAMBDA a : a.should_show)
        matching == SelectSeq(visible_apps,
                       LAMBDA a : _has_fuzzy_match(a.display_name, a.description,
                                                   query_lower)[2])
        scored_results ==
            [i \in DOMAIN matching |->
                <<_score_app_match(matching[i].display_name, matching[i].description,
                      query_lower,
                      _has_fuzzy_match(matching[i].display_name,
                                       matching[i].description, query_lower)[1]),
                  ApplicationSearchResult(matching[i])>>]
        top == top_results(sort_by_score(scored_results))
    IN IF app_infos = <<>> THEN <<>>
       ELSE [i \in DOMAIN top |-> top[i][2]]

(***************************************************************************)
(* FileSearchProvider                                                      *)
(***************************************************************************)
\* str.split(sep) for a one-character separator
RECURSIVE split(_, _)
split(s, c) ==
    LET hits == {i \in DOMAIN s : s[i] = c}
    IN IF hits = {} THEN <<s>>
       ELSE LET i == CHOOSE k \in hits : \A j \in hits : k <= j
            IN <<SubSeq(s, 1, i - 1)>> \o split(SubSeq(s, i + 1, Len(s)), c)

\* str.count of a character
count(s, c) == Cardinality({i \in DOMAIN s : s[i] = c})

\* the file system the provider looks at: os.path.expanduser("~") and the
\* paths for which os.path.isdir holds
home_dir == <<"/","h">>
Directories == { <<"/","f","i","x">> }
isdir(path) == path \in Directories

\* the hidden-segment test of _score_match (lines 414-419)
has_hidden_part(filepath) ==
    LET path_parts == split(filepath, sep)
    IN \E k \in 1..(Len(path_parts) - 1) :
          /\ startswith(path_parts[k], <<".">>)
          /\ path_parts[k] # <<".">>
          /\ path_parts[k] # <<".", ".">>

\* FileSearchProvider._score_match
_score_match(filepath, search_text) ==
    LET search_lower   == lower(search_text)
        filepath_lower == lower(filepath)
        basename_lower == lower(basename(filepath))
        pos == find(basename_lower, search_lower)
        exact == IF basename_lower = search_lower THEN 100
                 ELSE IF filepath_lower = search_lower THEN 90 ELSE 0
        prefix == IF startswith(basename_lower, search_lower) THEN 50
                  ELSE IF startswith(filepath_lower, search_lower) THEN 40 ELSE 0
        inside == IF contains(basename_lower, search_lower)
                  THEN 30 + (IF pos < 20 THEN 20 - pos ELSE 0)
                  ELSE IF contains(filepath_lower, search_lower) THEN 20 ELSE 0
        depth == Max(0, 10 - count(filepath, sep))
        home == IF startswith(filepath, home_dir) THEN 5 ELSE 0
        dir == IF isdir(filepath) THEN 2 ELSE 0
        hidden == IF ~startswith(search_text, <<".">>) /\ has_hidden_part(filepath)
                  THEN 10 ELSE 0
    IN exact + prefix + inside + depth + home + dir - hidden

\* the body of the try block of _on_locate_finished: the list handed to the
\* callback for a finished communicate_utf8 that gave (success, stdout)
LocateResults(success, stdout, query) ==
    IF success /\ stdout # <<>>
    THEN LET lines == split(strip(stdout), "\n")
             kept == SelectSeq(lines, LAMBDA line : strip(line) # <<>>)
             results == [i \in DOMAIN kept |-> <<_score_match(kept[i], query), kept[i]>>]
             top == top_results(sort_by_score(results))
         IN [i \in DOMAIN top |-> FileSearchResult(top[i][2])]
    ELSE <<>>

\* the provider's state: fs = [cur, procs]; cur is _current_subprocess and
\* procs the set of spawned processes whose communicate_utf8_async has not
\* called back yet, each [id, query, killed]
FS(cur, ps) == [cur |-> cur, procs |-> ps]

\* cancel_search that force-exits the process but keeps its handle
cancel_search_keeping_handle(fs) ==
    IF fs.cur # None
    THEN FS(fs.cur, {IF p.id = fs.cur THEN [p EXCEPT !.killed = TRUE] ELSE p
                     : p \in fs.procs})
    ELSE fs

\* FileSearchProvider.cancel_search
cancel_search(fs) ==
    IF fs.cur # None
    THEN FS(None, {IF p.id = fs.cur THEN [p EXCEPT !.killed = TRUE] ELSE p
                   : p \in fs.procs})
    ELSE fs

\* a process id not in use
NewProcId(fs) ==
    CHOOSE i \in 1..(Cardinality(fs.procs) + 1) : \A p \in fs.procs : p.id # i

\* launcher.spawnv and communicate_utf8_async of FileSearchProvider.search,
\* after cancel_search (lines 328-336)
spawn(fs, query) ==
    LET c == cancel_search(fs)
        pid == NewProcId(c)
    IN FS(pid, c.procs \cup {[id |-> pid, query |-> query, killed |-> FALSE]})

\* the finally clause of _on_locate_finished, and the end of the call
finish(fs, pid) == FS(None, {p \in fs.procs : p.id # pid})

\* search that hands a query of any length to locate
FileSearch_without_length_check(fs, query, spawned) ==
    IF spawned THEN [fs |-> spawn(fs, query), called_back |-> FALSE]
    ELSE [fs |-> cancel_search(fs), called_back |-> TRUE]

\* search that only logs when the process does not start
FileSearch_silent_on_spawn_failure(fs, query, spawned) ==
    IF Len(query) < 2 THEN [fs |-> fs, called_back |-> TRUE]
    ELSE IF spawned THEN [fs |-> spawn(fs, query), called_back |-> FALSE]
    ELSE [fs |-> cancel_search(fs), called_back |-> FALSE]

\* FileSearchProvider.search; spawned: whether launcher.spawnv succeeds;
\* called_back: whether it has invoked self.callback([]) before returning
FileSearch(fs, query, spawned) ==
    IF Len(query) < 2 THEN [fs |-> fs, called_back |-> TRUE]
    ELSE IF spawned THEN [fs |-> spawn(fs, query), called_back |-> FALSE]
    ELSE [fs |-> cancel_search(fs), called_back |-> TRUE]

(***************************************************************************)
(* get_actions of the items                                                *)
(***************************************************************************)
\* Gio.AppInfo.get_all_for_type of the file's content type, restricted to the
\* applications with should_show(): their display names, the default handler
\* (Gio.AppInfo.get_default_for_type) first
valid_app_infos(file) ==
    IF file = <<"/","h","/","f","i">>
    THEN << <<"F","i","r","e","f","o","x">>, <<"F","i","l","e","s">> >>
    ELSE <<>>

\* FileSearchResult.do_get_actions
FileSearchResult_get_actions(file) ==
    <<OpenContainingFolder(file), CopyFilePath(file), CopyFileName(file)>>
    \o (IF valid_app_infos(file) # <<>> THEN <<OpenWith(file)>> ELSE <<>>)

\* OpenWith.do_get_actions: every handler but the default one
OpenWith_get_actions(file) ==
    LET all_app_infos == valid_app_infos(file)
        others == SelectSeq(all_app_infos, LAMBDA a : a # all_app_infos[1])
    IN [i \in DOMAIN others |-> OpenWithSpecificApp(file, others[i])]

\* Action.get_actions, by class
get_actions(item) ==
    IF item.kind = "FileSearchResult" THEN FileSearchResult_get_actions(item.file)
    ELSE IF item.kind = "OpenWith" THEN OpenWith_get_actions(item.file)
    ELSE <<>>

\* ResultList.get_actions; its None, when nothing is selected, is the empty
\* list here: the caller tests `if actions:`
ResultList_get_actions(list) ==
    IF list.selected # INVALID_LIST_POSITION THEN get_actions(get_selected(list))
    ELSE <<>>

(***************************************************************************)
(* HittaWindow, as operators on w = [rs, input, tid, timeouts]             *)
(***************************************************************************)
W(rs, text, tid, ts) == [rs |-> rs, input |-> text, tid |-> tid, timeouts |-> ts]

\* GLib.timeout_add: a source id not in use
NewSourceId(ts) ==
    CHOOSE i \in 1..(Cardinality(ts) + 1) : \A t \in ts : t.id # i

\* _on_input_changed that does not remove the pending timer
_on_input_changed_keeping_timer(w) ==
    LET search_text == strip(w.input)
        id == NewSourceId(w.timeouts)
    IN IF ~is_at_search_level(w.rs)
       THEN W(search_current_level(w.rs, search_text), w.input, w.tid, w.timeouts)
       ELSE IF search_text # <<>>
       THEN W(w.rs, w.input, id, w.timeouts \cup {[id |-> id, text |-> search_text]})
       ELSE w

\* _on_input_changed that debounces at every level
_on_input_changed_debouncing_always(w) ==
    LET removed == IF w.tid # None THEN {t \in w.timeouts : t.id # w.tid}
                   ELSE w.timeouts
        search_text == strip(w.input)
        id == NewSourceId(removed)
    IN IF search_text # <<>>
       THEN W(w.rs, w.input, id, removed \cup {[id |-> id, text |-> search_text]})
       ELSE W(w.rs, w.input, None, removed)

\* HittaWindow._on_input_changed
_on_input_changed(w) ==
    LET removed == IF w.tid # None THEN {t \in w.timeouts : t.id # w.tid}
                   ELSE w.timeouts
        search_text == strip(w.input)
        id == NewSourceId(removed)
    IN IF ~is_at_search_level(w.rs)
       THEN W(search_current_level(w.rs, search_text), w.input, None, removed)
       ELSE IF search_text # <<>>
       THEN W(w.rs, w.input, id, removed \cup {[id |-> id, text |-> search_text]})
       ELSE W(w.rs, w.input, None, removed)

\* Gtk.TextBuffer.set_text: the old text is deleted and the new one inserted,
\* and "changed" is emitted for each of the two that is not empty
set_text(w, text) ==
    LET deleted == IF w.input # <<>>
                   THEN _on_input_changed([w EXCEPT !.input = <<>>])
                   ELSE w
    IN IF text # <<>>
       THEN _on_input_changed([deleted EXCEPT !.input = text])
       ELSE deleted

\* HittaWindow._on_search_results
_on_search_results(rs, items) ==
    [rs EXCEPT !.lists[search_result] = set_items(@, items)]

\* HittaWindow._on_submit (what it leaves of the window; the window is hidden)
_on_submit(w) ==
    LET cleared == set_text(w, <<>>)
    IN [cleared EXCEPT !.rs = reset_to_search_results(@)]

\* the Escape branch of _on_window_key_pressed
on_escape(w) ==
    IF ~pop_stack_result(w.rs)
    THEN LET cleared == set_text(w, <<>>)
         IN [cleared EXCEPT !.rs = reset_to_search_results(@)]
    ELSE LET popped == [w EXCEPT !.rs = pop_stack(@)]
         IN set_text(popped, get_current_search_query(popped.rs))

\* the Control branch of _on_window_key_pressed
on_control(w) ==
    LET actions == ResultList_get_actions(w.rs.lists[get_current_list(w.rs)])
        current_query == strip(w.input)
    IN IF actions # <<>>
       THEN set_text([w EXCEPT !.rs = push_actions(
                                         update_current_search_state(@, current_query),
                                         actions)],
                     <<>>)
       ELSE w

\* the Up and Down branches of _on_window_key_pressed
on_arrow(w, direction) ==
    [w EXCEPT !.rs.lists[get_current_list(w.rs)] = navigate_list(@, direction)]

Window == W(Stack, input, _search_timeout_id, timeouts)
SetWindow(w) ==
    /\ SetStack(w.rs)
    /\ input' = w.input
    /\ _search_timeout_id' = w.tid
    /\ timeouts' = w.timeouts

File == FS(_current_subprocess, procs)
SetFile(fs) ==
    /\ _current_subprocess' = fs.cur
    /\ procs' = fs.procs

(***************************************************************************)
(* History variables                                                       *)
(***************************************************************************)
\* a call of a method; rep: the same call with the same argument as the call
\* before it
Call(op, arg) ==
    [op |-> op, arg |-> arg, rep |-> last.op = op /\ last.arg = arg,
     failed |-> FALSE]

\* an event of the main loop; failed: whether a file search failed in it (the
\* process did not start, or ended without success, without output, or the
\* processing of its output raised)
Event(op, arg) == [op |-> op, arg |-> arg, rep |-> FALSE, failed |-> FALSE]

NoSnapshot == [valid |-> FALSE, items |-> <<>>, pushes |-> 0, peak |-> 0]
NoTrip == [phase |-> 0, actions |-> <<>>, narrowed |-> FALSE]
NoSearch == [started |-> FALSE, done |-> FALSE, raced |-> FALSE, pid |-> 0,
             items |-> <<>>]
NoScore == [op |-> "none", texts |-> <<>>, query |-> <<>>, scores |-> <<>>,
            items |-> <<>>]

(***************************************************************************)
(* The program after construction                                          *)
(***************************************************************************)
Init ==
    /\ lists = ResultStackInit.lists
    /\ _stack = ResultStackInit.stack
    /\ _search_states = ResultStackInit.search_states
    /\ input = <<>>
    /\ visible = TRUE
    /\ _search_timeout_id = None
    /\ timeouts = {}
    /\ _current_subprocess = None
    /\ procs = {}
    /\ last = [op |-> "init", arg |-> <<>>, rep |-> FALSE, failed |-> FALSE]
    /\ root_before_push = NoSnapshot
    /\ trip = NoTrip
    /\ newest = NoSearch
    /\ scoring = NoScore

(***************************************************************************)
(* The window's events                                                     *)
(***************************************************************************)
MaxProcs == 2

\* the texts the user leaves in the input field: an application query, a file
\* query too short for locate, a file query, and a padded text that narrows a
\* file's actions to "Open with..."
InputTexts ==
    { <<>>, <<" ","w">>, <<"f","i">>, <<"'","f">>, <<"'","f","i">> }

\* what locate may have written when communicate_utf8 finishes
Outputs ==
    { <<>>,
      <<"/","f","i","x","\n","\n","/","h","/","f","i","\n">> }

\* how communicate_utf8_finish may end: it raises, or gives (success, stdout)
Outcomes ==
    {[raises |-> TRUE, success |-> FALSE, stdout |-> <<>>],
     [raises |-> FALSE, success |-> FALSE, stdout |-> <<>>]}
    \cup {[raises |-> FALSE, success |-> TRUE, stdout |-> o] : o \in Outputs}

historyUnused == <<root_before_push, trip, scoring>>

\* the user edits the text: the buffer emits "changed"
InputChanged ==
    \E text \in InputTexts :
        /\ visible
        /\ text # input
        /\ SetWindow(_on_input_changed([Window EXCEPT !.input = text]))
        /\ last' = Event("_on_input_changed", <<>>)
        /\ UNCHANGED <<visible, fileVars, newest, historyUnused>>

KeyUp ==
    /\ visible
    /\ SetWindow(on_arrow(Window, -1))
    /\ last' = Event("Up", <<>>)
    /\ UNCHANGED <<visible, fileVars, newest, historyUnused>>

KeyDown ==
    /\ visible
    /\ SetWindow(on_arrow(Window, 1))
    /\ last' = Event("Down", <<>>)
    /\ UNCHANGED <<visible, fileVars, newest, historyUnused>>

KeyReturn ==
    /\ visible
    /\ SetWindow(_on_submit(Window))
    /\ visible' = FALSE
    /\ last' = Event("Return", <<>>)
    /\ newest' = NoSearch
    /\ UNCHANGED <<fileVars, historyUnused>>

KeyEscape ==
    /\ visible
    /\ SetWindow(on_escape(Window))
    /\ visible' = IF pop_stack_result(Stack) THEN visible ELSE FALSE
    /\ last' = Event("Escape", pop_stack_result(Stack))
    /\ newest' = IF pop_stack_result(Stack) THEN newest ELSE NoSearch
    /\ UNCHANGED <<fileVars, historyUnused>>

KeyControl ==
    /\ visible
    /\ SetWindow(on_control(Window))
    /\ last' = Event("Control", <<>>)
    /\ UNCHANGED <<visible, fileVars, newest, historyUnused>>

\* SIGUSR1: on_usr1_signal shows the window again
Show ==
    /\ ~visible
    /\ visible' = TRUE
    /\ last' = Event("SIGUSR1", <<>>)
    /\ UNCHANGED <<stackVars, windowVars, fileVars, newest, historyUnused>>

\* a debounce timer fires: HittaWindow._perform_search(search_text), with
\* AppSearchProvider.search inlined; spawned: whether launcher.spawnv succeeds
PerformSearch ==
    \E t \in timeouts, spawned \in BOOLEAN :
        LET search_text == t.text
            cancelled == cancel_search(File)
            query == Slice(search_text, 1, Len(search_text))
            is_file == startswith(search_text, <<"'">>)
            searched == FileSearch(cancelled, query, spawned)
            spawns == is_file /\ Len(query) >= 2 /\ spawned
            calls_back == IF is_file THEN query # <<>> /\ searched.called_back
                          ELSE TRUE
            items == IF is_file THEN <<>> ELSE AppSearch(_app_infos, search_text)
        IN /\ spawns => Cardinality(cancelled.procs) < MaxProcs
           /\ _search_timeout_id' = None
           /\ timeouts' = timeouts \ {t}
           /\ SetFile(IF is_file /\ query # <<>> THEN searched.fs ELSE cancelled)
           /\ SetStack(IF calls_back THEN _on_search_results(Stack, items) ELSE Stack)
           /\ newest' = IF spawns
                        THEN [started |-> TRUE, done |-> FALSE,
                              raced |-> cancelled.procs # {}, pid |-> searched.fs.cur,
                              items |-> <<>>]
                        ELSE IF calls_back THEN NoSearch ELSE newest
           /\ last' = [Event("_perform_search", <<>>) EXCEPT
                           !.failed = is_file /\ Len(query) >= 2 /\ ~spawned]
           /\ UNCHANGED <<input, visible, historyUnused>>

\* the ids a process can have
ProcIds == 1..MaxProcs

\* communicate_utf8_async of process id calls back:
\* FileSearchProvider._on_locate_finished
LocateFinishedOf(id) ==
    \E p \in procs, outcome \in Outcomes :
        LET items == IF outcome.raises THEN <<>>
                     ELSE LocateResults(outcome.success, outcome.stdout, p.query)
        IN /\ p.id = id
           /\ SetStack(_on_search_results(Stack, items))
           /\ SetFile(finish(File, p.id))
           /\ newest' = IF newest.started /\ ~newest.done /\ newest.pid = p.id
                        THEN [newest EXCEPT !.done = TRUE, !.items = items]
                        ELSE newest
           /\ last' = [Event("_on_locate_finished", p.killed) EXCEPT
                           !.failed = \/ outcome.raises
                                      \/ ~outcome.success
                                      \/ outcome.stdout = <<>>]
           /\ UNCHANGED <<windowVars, visible, historyUnused>>

LocateFinished == \E id \in ProcIds : LocateFinishedOf(id)

Next ==
    \/ InputChanged
    \/ KeyUp
    \/ KeyDown
    \/ KeyReturn
    \/ KeyEscape
    \/ KeyControl
    \/ Show
    \/ PerformSearch
    \/ LocateFinished

Spec == Init /\ [][Next]_vars

\* the GLib main loop dispatches the completion of every process
SpecFair == Spec /\ \A id \in ProcIds : WF_vars(LocateFinishedOf(id))

(***************************************************************************)
(* The ResultStack driven through its own methods                          *)
(***************************************************************************)
MaxDepth == 3

AFile == <<"/","h","/","f","i">>

\* the action lists handed to push_actions
StackActionLists ==
    { <<>>,
      <<OpenContainingFolder(AFile), CopyFilePath(AFile), CopyFileName(AFile)>>,
      <<CopyFileName(AFile), OpenWith(AFile)>> }

\* the queries handed to search_current_level and update_current_search_state
StackQueries ==
    { <<>>, <<"c","o","p","y">>, <<"F","O","L","D","E","R">> }

\* the lists handed to search_result.set_items
StackRootLists ==
    { <<>>, <<FileSearchResult(AFile)>>,
      <<OpenWith(AFile), FileSearchResult(AFile)>> }

\* root_before_push after a call of push_actions(actions)
SnapshotAfterPush(actions) ==
    IF Len(actions) = 0 THEN NoSnapshot
    ELSE IF Len(_stack) = 1
    THEN [valid |-> TRUE, items |-> RootItems, pushes |-> 1, peak |-> 1]
    ELSE IF root_before_push.valid
    THEN [root_before_push EXCEPT
              !.pushes = @ + 1,
              !.peak = Max(root_before_push.peak, root_before_push.pushes + 1)]
    ELSE NoSnapshot

\* root_before_push after a call of pop_stack()
SnapshotAfterPop ==
    IF pop_stack_result(Stack) /\ root_before_push.valid
    THEN [root_before_push EXCEPT !.pushes = @ - 1]
    ELSE NoSnapshot

StackPushActions ==
    \E actions \in StackActionLists :
        /\ Len(_stack) < MaxDepth
        /\ SetStack(push_actions(Stack, actions))
        /\ last' = Call("push_actions", actions)
        /\ root_before_push' = SnapshotAfterPush(actions)
        /\ trip' = IF Len(actions) = 0 THEN NoTrip
                   ELSE [phase |-> 1, actions |-> actions, narrowed |-> FALSE]
        /\ UNCHANGED <<windowVars, visible, fileVars, newest, scoring>>

StackPopStack ==
    /\ SetStack(pop_stack(Stack))
    /\ last' = Call("pop_stack", pop_stack_result(Stack))
    /\ root_before_push' = SnapshotAfterPop
    /\ trip' = NoTrip
    /\ UNCHANGED <<windowVars, visible, fileVars, newest, scoring>>

StackResetToSearchResults ==
    /\ SetStack(reset_to_search_results(Stack))
    /\ last' = Call("reset_to_search_results", <<>>)
    /\ root_before_push' = NoSnapshot
    /\ trip' = NoTrip
    /\ UNCHANGED <<windowVars, visible, fileVars, newest, scoring>>

StackSearchCurrentLevel ==
    \E query \in StackQueries :
        /\ SetStack(search_current_level(Stack, query))
        /\ last' = Call("search_current_level", query)
        /\ root_before_push' = NoSnapshot
        /\ trip' = IF trip.phase = 1 /\ query # <<>>
                   THEN [trip EXCEPT
                            !.phase = 2,
                            !.narrowed = Len(filtered_items(trip.actions, query))
                                         < Len(trip.actions)]
                   ELSE IF trip.phase = 2 /\ query = <<>> THEN [trip EXCEPT !.phase = 3]
                   ELSE NoTrip
        /\ UNCHANGED <<windowVars, visible, fileVars, newest, scoring>>

StackUpdateCurrentSearchState ==
    \E query \in StackQueries :
        /\ SetStack(update_current_search_state(Stack, query))
        /\ last' = Call("update_current_search_state", query)
        /\ root_before_push' = NoSnapshot
        /\ trip' = NoTrip
        /\ UNCHANGED <<windowVars, visible, fileVars, newest, scoring>>

\* result_stack.search_result.set_items(items), as the provider callback does
StackSetRootItems ==
    \E items \in StackRootLists :
        /\ SetStack(_on_search_results(Stack, items))
        /\ last' = Call("set_items", items)
        /\ root_before_push' = NoSnapshot
        /\ trip' = NoTrip
        /\ UNCHANGED <<windowVars, visible, fileVars, newest, scoring>>

StackNext ==
    \/ StackPushActions
    \/ StackPopStack
    \/ StackResetToSearchResults
    \/ StackSearchCurrentLevel
    \/ StackUpdateCurrentSearchState
    \/ StackSetRootItems

SpecStack == Init /\ [][StackNext]_vars

(***************************************************************************)
(* The scorers and the providers' result lists, called on their own        *)
(***************************************************************************)
\* _fuzzy_match_score gives up on a one-character query when the text is
\* longer than this (line 480)
ShortQueryTextLimit == 50

\* a text one character longer than ShortQueryTextLimit, with one "f" in it
LongText == [i \in 1..(ShortQueryTextLimit + 1) |-> IF i = 30 THEN "f" ELSE "a"]

\* the texts handed to _fuzzy_match_score
ScoreTexts ==
    { <<>>,
      <<"F","i","r","e","f","o","x">>, <<"F","i","l","e","s">>,
      <<"T","e","r","m","i","n","a","l">>,
      <<"f","i","i","i","x">>, <<"i","f","-","x","i">>, <<"i","f","i","x","i">>,
      <<"a","b","x","c">>, <<"a","x","b","c">>, <<"x","A","b","C">>,
      LongText }

\* the queries handed to _fuzzy_match_score
ScoreQueries ==
    { <<>>, <<"f">>, <<"x">>, <<"f","x">>, <<"F","X">>, <<"f","i">>,
      <<"a","b","c">>, <<"a","c","b">> }

\* a catalog with descriptions and an application that is not shown
DescribedApps ==
    << AppInfo(<<"F","i","r","e","f","o","x">>,
               <<"W","e","b"," ","b","r","o","w","s","e","r">>, TRUE),
       AppInfo(<<"F","o","x">>, <<>>, FALSE),
       AppInfo(<<"F","i","l","e","s">>,
               <<"B","r","o","w","s","e"," ","f","i","l","e","s">>, TRUE),
       AppInfo(<<"T","e","r","m","i","n","a","l">>, <<>>, TRUE) >>

\* a catalog and a locate output with more entries than ResultLimit, two
\* kinds of entries in turn so that scores tie and differ
ManyLetters == LowerLetters \o UpperLetters
ManyApps ==
    [i \in 1..(ResultLimit + 2) |->
        AppInfo(IF i % 3 = 0 THEN <<ManyLetters[i], "q">> ELSE <<"q", ManyLetters[i]>>,
                <<>>, TRUE)]
ManyLines ==
    [i \in 1..(ResultLimit + 2) |->
        IF i % 3 = 0 THEN <<"/", ManyLetters[i], "q", "q">>
        ELSE <<"/", "q", "q", ManyLetters[i]>>]
ManyLinesOutput ==
    [k \in 1..(5 * Len(ManyLines)) |->
        IF k % 5 = 0 THEN "\n" ELSE ManyLines[(k - 1) \div 5 + 1][k % 5]]

Catalogs == { <<>>, _app_infos, DescribedApps, ManyApps }
AppQueries ==
    { <<"f","x">>, <<"F","X">>, <<"f","i">>, <<"w","e","b">>,
      <<"b","r","o","w">>, <<"q">>, <<"z","z">> }
LocateOutputs ==
    { ManyLinesOutput,
      <<"/","f","i","x","\n","\n","/","h","/","f","i","\n">>,
      <<"/","q","q","\n","/","x","/","q","q","\n","/","y","/","q","q","\n">> }
LocateQueries == { <<"q","q">>, <<"f","i">> }

programVars == <<stackVars, windowVars, visible, fileVars, last,
                 root_before_push, trip, newest>>

\* a call of _fuzzy_match_score(text, query)
ScoreText ==
    \E text \in ScoreTexts, query \in ScoreQueries :
        /\ scoring' = [op |-> "_fuzzy_match_score", texts |-> <<text>>,
                       query |-> query,
                       scores |-> <<_fuzzy_match_score(text, query)>>,
                       items |-> <<>>]
        /\ UNCHANGED programVars

\* _fuzzy_match_score of two texts of equal length for the same query
ScoreTwoTexts ==
    \E t1 \in ScoreTexts, t2 \in ScoreTexts, query \in ScoreQueries :
        /\ Len(t1) = Len(t2)
        /\ t1 # t2
        /\ scoring' = [op |-> "two texts", texts |-> <<t1, t2>>, query |-> query,
                       scores |-> <<_fuzzy_match_score(t1, query),
                                    _fuzzy_match_score(t2, query)>>,
                       items |-> <<>>]
        /\ UNCHANGED programVars

\* AppSearchProvider.search(query) over a catalog: texts is the catalog,
\* items the list handed to the callback
SearchApps ==
    \E app_infos \in Catalogs, query \in AppQueries :
        /\ scoring' = [op |-> "AppSearchProvider.search", texts |-> app_infos,
                       query |-> query, scores |-> <<>>,
                       items |-> AppSearch(app_infos, query)]
        /\ UNCHANGED programVars

\* _on_locate_finished for a successful locate: texts holds its output,
\* items the list handed to the callback
LocateDelivers ==
    \E stdout \in LocateOutputs, query \in LocateQueries :
        /\ scoring' = [op |-> "_on_locate_finished", texts |-> <<stdout>>,
                       query |-> query, scores |-> <<>>,
                       items |-> LocateResults(TRUE, stdout, query)]
        /\ UNCHANGED programVars

ScoreNext ==
    \/ ScoreText
    \/ ScoreTwoTexts
    \/ SearchApps
    \/ LocateDelivers

SpecScore == Init /\ [][ScoreNext]_vars

(***************************************************************************)
(* Properties of the ResultStack (checked under SpecStack)                 *)
(***************************************************************************)
TopItems == lists[Last(_stack)].items
TopOriginals == Last(_search_states)[2]

\* C1: whatever ResultStack methods are called, the stack holds at least one
\* list and its first list is search_result; pop_stack at depth 1 returns
\* False and changes neither _stack, _search_states nor any list.
C1_DepthAtLeastOne ==
    /\ [](Len(_stack) >= 1 /\ _stack[1] = search_result)
    /\ [][(last'.op = "pop_stack" /\ Len(_stack) = 1)
            => (last'.arg = FALSE /\ UNCHANGED stackVars)]_vars

\* pop_stack has just been refused at Root, with results on display
C1_Witness ==
    /\ last.op = "pop_stack"
    /\ last.arg = FALSE
    /\ Depth = 1
    /\ RootItems # <<>>

\* C5: while only push_actions and pop_stack have run since the stack left
\* Root, the depth is 1 plus the pushes not yet popped and the root list shows
\* the items it showed before the first push; so n pushes and n pops end at
\* depth 1 with the root items intact.
C5_RootIntactAcrossPushPop ==
    root_before_push.valid =>
        /\ Depth = 1 + root_before_push.pushes
        /\ RootItems = root_before_push.items

\* two levels were pushed over a non-empty root list and both popped again
C5_Witness ==
    /\ root_before_push.valid
    /\ root_before_push.peak = 2
    /\ root_before_push.pushes = 0
    /\ root_before_push.items # <<>>
    /\ last.op = "pop_stack"

\* the top level's items after push_actions(actions), search_current_level(x),
\* search_current_level("") from the stack rs
RoundTrip(rs, actions, x) ==
    LET r == search_current_level(
                 search_current_level(push_actions(rs, actions), x), <<>>)
    IN r.lists[Last(r.stack)].items

\* C7: push_actions(actions), search_current_level(x), search_current_level("")
\* leaves the top level displaying exactly actions, in order: in the run that
\* made these three calls back to back, and from every reachable stack.
C7_FilterRoundTrip ==
    /\ trip.phase = 3 => TopItems = trip.actions
    /\ \A actions \in StackActionLists \ {<<>>}, x \in StackQueries :
          RoundTrip(Stack, actions, x) = actions

\* the three calls were made back to back, and the filter had hidden items
C7_Witness ==
    /\ trip.phase = 3
    /\ trip.narrowed
    /\ last.op = "search_current_level"
    /\ Depth > 1

\* C8: a second search_current_level(q) right after the first changes neither
\* the displayed items nor the stored (query, original_items); as a function,
\* search_current_level(q) applied twice equals it applied once.
C8_FilterIdempotent ==
    /\ [](\A q \in StackQueries :
            search_current_level(search_current_level(Stack, q), q)
            = search_current_level(Stack, q))
    /\ [][(last'.op = "search_current_level" /\ last'.rep)
            => UNCHANGED stackVars]_vars

\* the same non-empty query was applied twice in a row at a drilled level and
\* hides some of the level's items but not all
C8_Witness ==
    /\ last.op = "search_current_level"
    /\ last.rep
    /\ last.arg # <<>>
    /\ Depth > 1
    /\ Len(TopItems) > 0
    /\ Len(TopItems) < Len(TopOriginals)

\* C9: the root level's original_items is always empty, and
\* search_current_level at Root changes nothing.
C9_RootOriginalsEmpty ==
    /\ [](_search_states[1][2] = <<>>)
    /\ [][(last'.op = "search_current_level" /\ Len(_stack) = 1)
            => UNCHANGED stackVars]_vars

\* search_current_level was called at Root while the root list showed results
\* and a query had been stored for the root level
C9_Witness ==
    /\ last.op = "search_current_level"
    /\ Depth = 1
    /\ RootItems # <<>>
    /\ _search_states[1][1] # <<>>

\* C10: a level above Root gets the list given to push_actions as its
\* original_items, and no step changes the original_items of a level that
\* stays on the stack.
C10_OriginalsFixedAtPush ==
    [][/\ \A k \in 2..Min(Len(_search_states), Len(_search_states')) :
              _search_states'[k][2] = _search_states[k][2]
       /\ (last'.op = "push_actions" /\ Len(_stack') = Len(_stack) + 1)
              => Last(_search_states')[2] = last'.arg]_vars

\* at depth 3 the top level is filtered to fewer items than its originals
\* while the level below it keeps a stored query
C10_Witness ==
    /\ Depth = 3
    /\ last.op = "search_current_level"
    /\ last.arg # <<>>
    /\ Len(TopItems) < Len(TopOriginals)
    /\ _search_states[2][1] # <<>>

(***************************************************************************)
(* Properties of the window and the file provider (checked under Spec)     *)
(***************************************************************************)
\* C2: when file search B was started while an earlier search's process had
\* not completed, then once every completion has been processed the root list
\* shows the results computed from B's output.
C2_LateCompletionIgnored ==
    (newest.done /\ newest.raced /\ procs = {}) => RootItems = newest.items

\* C3: the completion callback of a file search that was cancelled while in
\* flight changes no list.
C3_CancelledCompletionSilent ==
    [][(last'.op = "_on_locate_finished" /\ last'.arg) => lists' = lists]_vars

\* C4: at most one process spawned by the provider is live (spawned, not
\* force-exited, not completed).
C4_AtMostOneLive ==
    Cardinality({p \in procs : ~p.killed}) <= 1

\* C6: after the input text became empty at Root, the root list is empty.
C6_EmptyInputClearsRoot ==
    (last.op = "_on_input_changed" /\ strip(input) = <<>> /\ Depth = 1)
        => RootItems = <<>>

(***************************************************************************)
(* Properties of the key handlers (checked under Spec)                     *)
(***************************************************************************)
\* whether Control would push a level from the window w
Pushes(w) == ResultList_get_actions(w.rs.lists[get_current_list(w.rs)]) # <<>>

\* C11: a successful pop (Escape above Root) sets the input field to the query
\* stored for the level that becomes the top; Control stores the stripped
\* input text for the level it pushes from, and no step changes the query
\* stored for a level that stays below the top; so Control followed at once
\* by Escape leaves the stripped text in the input field.
C11_PopRestoresStrippedQuery ==
    /\ [](Pushes(Window) => on_escape(on_control(Window)).input = strip(input))
    /\ [][(last'.op = "Escape" /\ last'.arg)
            => /\ input' = _search_states[Len(_search_states) - 1][1]
               /\ input' = Last(_search_states')[1]]_vars
    /\ [][(last'.op = "Control" /\ Len(_stack') = Len(_stack) + 1)
            => _search_states'[Len(_stack)][1] = strip(input)]_vars
    /\ [][\A k \in 1..(Min(Len(_stack), Len(_stack')) - 1) :
            _search_states'[k][1] = _search_states[k][1]]_vars

\* Escape has popped back to the level of a file's actions, whose padded
\* filter text " w" came back stripped
C11_Witness ==
    /\ last.op = "Escape"
    /\ last.arg
    /\ Depth = 2
    /\ input = <<"w">>
    /\ Len(TopItems) = 1

\* C11 as stated: Control followed at once by Escape restores the input text
\* itself.
C11_PopRestoresInputText ==
    Pushes(Window) => on_escape(on_control(Window)).input = input

(***************************************************************************)
(* More properties of the ResultStack (checked under SpecStack)            *)
(***************************************************************************)
\* C12: push_actions of an empty list changes nothing; of a non-empty list it
\* adds exactly one level on top of the unchanged lower ones, with
\* original_items = actions, stored query "" and displayed items = actions;
\* so every level above Root has non-empty original_items.
C12_PushSemantics ==
    /\ [](\A k \in 2..Len(_search_states) : _search_states[k][2] # <<>>)
    /\ [][last'.op = "push_actions" =>
            IF last'.arg = <<>> THEN UNCHANGED stackVars
            ELSE /\ Len(_stack') = Len(_stack) + 1
                 /\ Front(_stack') = _stack
                 /\ Front(_search_states') = _search_states
                 /\ \A i \in DOMAIN lists : lists'[i] = lists[i]
                 /\ Last(_search_states') = << <<>>, last'.arg >>
                 /\ lists'[Last(_stack')].items = last'.arg]_vars

\* push_actions has just refused an empty list at a drilled level that shows
\* a filtered subset of its actions
C12_Witness ==
    /\ last.op = "push_actions"
    /\ last.arg = <<>>
    /\ Depth = 2
    /\ _search_states[2][1] # <<>>
    /\ Len(TopItems) < Len(TopOriginals)

\* whether search_current_level(q) keeps the item: q occurs in its name or in
\* its description, letter case ignored
Matches(item, q) ==
    \/ contains(lower(name_of(item)), lower(q))
    \/ contains(lower(description_of(item)), lower(q))

\* C14: above Root, search_current_level(q) with a non-empty q displays exactly
\* the items of the level's original_items whose name or description contains
\* q case-insensitively, in their order, and stores q as the level's query;
\* the lists of the lower levels are unchanged.
C14_FilterFromOriginals ==
    [][(last'.op = "search_current_level" /\ last'.arg # <<>> /\ Len(_stack) > 1)
         => /\ lists'[Last(_stack)].items
                 = SelectSeq(TopOriginals, LAMBDA item : Matches(item, last'.arg))
            /\ Last(_search_states') = <<last'.arg, TopOriginals>>
            /\ \A k \in 1..(Len(_stack) - 1) : lists'[_stack[k]] = lists[_stack[k]]
            /\ _stack' = _stack]_vars

\* at depth 3 the query "FOLDER" keeps the one action whose description
\* contains "folder", out of three
C14_Witness ==
    /\ last.op = "search_current_level"
    /\ last.arg = <<"F","O","L","D","E","R">>
    /\ Depth = 3
    /\ Len(TopOriginals) = 3
    /\ TopItems = <<OpenContainingFolder(AFile)>>

(***************************************************************************)
(* More properties of the key handlers (checked under Spec)                *)
(***************************************************************************)
\* C13: reset_to_search_results leaves, from any depth, a stack of depth 1
\* with _search_states = [("", [])] and an empty root list; Return and Escape
\* at Root both end in that state.
C13_ResetToRoot ==
    /\ [](LET r == reset_to_search_results(Stack)
          IN /\ r.stack = <<search_result>>
             /\ r.search_states = << << <<>>, <<>> >> >>
             /\ r.lists[search_result].items = <<>>)
    /\ [][(last'.op = "Return" \/ (last'.op = "Escape" /\ ~last'.arg))
            => /\ _stack' = <<search_result>>
               /\ _search_states' = << << <<>>, <<>> >> >>
               /\ RootItems' = <<>>
               /\ ~visible']_vars

\* Return has just hidden the window while a locate process was in flight
C13_Witness ==
    /\ last.op = "Return"
    /\ ~visible
    /\ Depth = 1
    /\ RootItems = <<>>
    /\ input = <<>>
    /\ procs # {}

\* the list on top of the stack
TopList == lists[Last(_stack)]

\* C15: a list with n > 0 items has its selected index in [0, n); Down moves
\* the selection of the top list one forward and Up one back, modulo n, so
\* they wrap at the ends; on an empty list they change nothing; and a list
\* whose items were replaced by a non-empty list has index 0 selected.
C15_SelectionWraps ==
    /\ [](\A i \in DOMAIN lists :
            Len(lists[i].items) > 0
                => lists[i].selected \in 0..(Len(lists[i].items) - 1))
    /\ [](\A i \in DOMAIN lists :
            /\ navigate_list(set_items(lists[i], <<>>), 1)
                   = set_items(lists[i], <<>>)
            /\ set_items(lists[i], <<FileSearchResult(AFile)>>).selected = 0)
    /\ [][(last'.op = "Down" \/ last'.op = "Up") =>
            LET n == Len(TopList.items)
                direction == IF last'.op = "Down" THEN 1 ELSE n - 1
            IN IF n = 0 THEN UNCHANGED stackVars
               ELSE /\ lists' = [lists EXCEPT ![Last(_stack)].selected =
                                     (TopList.selected + direction) % n]
                    /\ UNCHANGED <<_stack, _search_states>>]_vars
    /\ [][\A i \in DOMAIN lists' :
            (/\ lists'[i].items # <<>>
             /\ (i \in DOMAIN lists => lists'[i].items # lists[i].items))
                => lists'[i].selected = 0]_vars

\* Up at the first of a file's four actions has wrapped to the last one
C15_Witness ==
    /\ last.op = "Up"
    /\ Depth = 2
    /\ Len(TopList.items) = 4
    /\ TopList.selected = 3

(***************************************************************************)
(* Properties of the file provider (checked under Spec and SpecFair)       *)
(***************************************************************************)
\* the ids of the processes whose completion is outstanding
Pending == {p.id : p \in procs}

\* C16: when locate does not start, search reports an empty list at once and
\* leaves the handle slot empty; when a process that was not cancelled ends
\* without success, without output, or its processing raises, the callback
\* gets an empty list; the completion of every spawned process is eventually
\* processed; and search can always spawn again.
C16_FailureReportsEmpty ==
    /\ [][(last'.op = "_perform_search" /\ last'.failed)
            => /\ RootItems' = <<>>
               /\ _current_subprocess' = None
               /\ Pending' = Pending]_vars
    /\ [][(last'.op = "_on_locate_finished" /\ ~last'.arg /\ last'.failed)
            => /\ RootItems' = <<>>
               /\ UNCHANGED <<_stack, _search_states, windowVars, visible>>]_vars
    /\ \A id \in ProcIds : (id \in Pending) ~> (id \notin Pending)
    /\ [](LET again == FileSearch(File, <<"f","i">>, TRUE)
          IN /\ again.fs.cur # None
             /\ ~again.called_back
             /\ \E p \in again.fs.procs : p.id = again.fs.cur /\ ~p.killed)

\* a process that was not cancelled has just ended in failure, and no other
\* process is outstanding
C16_Witness ==
    /\ last.op = "_on_locate_finished"
    /\ ~last.arg
    /\ last.failed
    /\ RootItems = <<>>
    /\ procs = {}
    /\ visible

\* C17: search with a query shorter than 2 characters calls back with an
\* empty list at once and spawns no process.
C17_ShortQueryRejected ==
    /\ [](\A query \in {<<>>, <<"f">>}, spawned \in BOOLEAN :
            FileSearch(File, query, spawned) = [fs |-> File, called_back |-> TRUE])
    /\ [][(/\ last'.op = "_perform_search"
           /\ \E t \in timeouts \ timeouts' :
                 startswith(t.text, <<"'">>) /\ Len(t.text) = 2)
            => /\ RootItems' = <<>>
               /\ Pending' = Pending
               /\ _current_subprocess' = None]_vars

\* the one-character file query 'f has just been searched while the process
\* of an earlier file search, force-exited by _perform_search, is outstanding
C17_Witness ==
    /\ last.op = "_perform_search"
    /\ input = <<"'","f">>
    /\ RootItems = <<>>
    /\ _current_subprocess = None
    /\ \E p \in procs : p.killed

\* C18: cancel_search with an empty handle slot changes nothing; otherwise it
\* force-exits the process in the slot and empties the slot; a second call
\* right after changes nothing more.
C18_CancelIdempotent ==
    /\ _current_subprocess = None => cancel_search(File) = File
    /\ cancel_search(File).cur = None
    /\ cancel_search(cancel_search(File)) = cancel_search(File)
    /\ \A p \in procs :
          IF p.id = _current_subprocess
          THEN [p EXCEPT !.killed = TRUE] \in cancel_search(File).procs
          ELSE p \in cancel_search(File).procs
    /\ Cardinality(cancel_search(File).procs) = Cardinality(procs)

\* an application search has just cancelled the file search in flight
C18_Witness ==
    /\ last.op = "_perform_search"
    /\ input = <<"f","i">>
    /\ _current_subprocess = None
    /\ Cardinality(procs) = 1
    /\ \A p \in procs : p.killed

(***************************************************************************)
(* Properties of the debounce timer (checked under Spec)                   *)
(***************************************************************************)
\* C19: at most one debounce timer is pending, it is the one in
\* _search_timeout_id and it holds the stripped input text, at Root; an input
\* change leaves no timer pending but the one it starts; so when a timer fires,
\* _perform_search runs at Root with the current stripped input text.
C19_OneTimerCurrentText ==
    /\ [](Cardinality(timeouts) <= 1)
    /\ [](\A t \in timeouts :
            t.id = _search_timeout_id /\ t.text = strip(input) /\ Depth = 1)
    /\ [][last'.op = "_on_input_changed"
            => timeouts' \subseteq {[id |-> _search_timeout_id',
                                    text |-> strip(input')]}]_vars
    /\ [][last'.op = "_perform_search"
            => /\ Depth = 1
               /\ \A t \in timeouts \ timeouts' : t.text = strip(input)
               /\ timeouts' = {}]_vars

\* the application search for "fi" has just run, after a file search typed
\* before it had spawned a process
C19_Witness ==
    /\ last.op = "_perform_search"
    /\ input = <<"f","i">>
    /\ Len(RootItems) = 2
    /\ timeouts = {}
    /\ procs # {}

\* C20: above Root an input change filters the top level in the same event
\* (search_current_level with the stripped text), leaves no timer pending and
\* touches neither the root list nor the file provider.
C20_DrilledFilterSynchronous ==
    [][(last'.op = "_on_input_changed" /\ Depth > 1)
         => /\ RS(lists', _stack', _search_states')
                 = search_current_level(Stack, strip(input'))
            /\ timeouts' = {}
            /\ _search_timeout_id' = None
            /\ lists'[search_result] = lists[search_result]
            /\ UNCHANGED fileVars]_vars

\* the padded text " w" typed over a file's actions has narrowed them to one
C20_Witness ==
    /\ last.op = "_on_input_changed"
    /\ input = <<" ","w">>
    /\ Depth = 2
    /\ Last(_search_states)[1] = <<"w">>
    /\ Len(TopOriginals) = 4
    /\ Len(TopItems) = 1

(***************************************************************************)
(* Properties of the scorer (checked under SpecScore)                      *)
(***************************************************************************)
\* whether the characters of q occur in t in order, from index i of q and
\* index j of t on (1-based)
RECURSIVE subsequence_from(_, _, _, _)
subsequence_from(q, t, i, j) ==
    IF i > Len(q) THEN TRUE
    ELSE IF j > Len(t) THEN FALSE
    ELSE IF q[i] = t[j] THEN subsequence_from(q, t, i + 1, j + 1)
    ELSE subsequence_from(q, t, i, j + 1)

is_subsequence(q, t) == subsequence_from(lower(q), lower(t), 1, 1)

\* the 0-based text positions at which the characters of q are matched, each
\* at its first occurrence after the match before it
RECURSIVE match_positions(_, _, _, _)
match_positions(q, t, i, j) ==
    IF i > Len(q) \/ j > Len(t) THEN <<>>
    ELSE IF q[i] = t[j] THEN <<j - 1>> \o match_positions(q, t, i + 1, j + 1)
    ELSE match_positions(q, t, i, j + 1)

\* whether text matches query through the scattered-match path
Scattered(text, query) ==
    /\ query # <<>>
    /\ ~contains(lower(text), lower(query))
    /\ _fuzzy_match_score(text, query) > 0

\* whether the first matched character of text sits at a word boundary
FirstMatchAtBoundary(text, query) ==
    at_boundary(text, match_positions(lower(query), lower(text), 1, 1)[1])

\* C21: a text that contains the non-empty query as a substring, letter case
\* ignored, scores at least 100.
C21_SubstringScoresHundred ==
    (/\ scoring.op = "_fuzzy_match_score"
     /\ scoring.query # <<>>
     /\ contains(lower(scoring.texts[1]), lower(scoring.query)))
        => scoring.scores[1] >= 100 * Scale

\* C22: a text in which the characters of the query do not occur in order,
\* letter case ignored, scores 0.
C22_NoSubsequenceScoresZero ==
    (/\ scoring.op = "_fuzzy_match_score"
     /\ ~is_subsequence(scoring.query, scoring.texts[1]))
        => scoring.scores[1] = 0

\* "xAbC" holds every character of "acb" but not in that order, and is short
\* enough for a length bonus
C22_Witness ==
    /\ scoring.op = "_fuzzy_match_score"
    /\ scoring.texts = << <<"x","A","b","C">> >>
    /\ scoring.query = <<"a","c","b">>
    /\ scoring.scores = <<0>>

\* C23: of two texts of equal length that match the query through the
\* scattered-match path, the one whose first matched character sits at a word
\* boundary scores strictly higher than the one whose does not.
C23_BoundaryScoresHigher ==
    (/\ scoring.op = "two texts"
     /\ Scattered(scoring.texts[1], scoring.query)
     /\ Scattered(scoring.texts[2], scoring.query)
     /\ FirstMatchAtBoundary(scoring.texts[1], scoring.query)
     /\ ~FirstMatchAtBoundary(scoring.texts[2], scoring.query))
        => scoring.scores[1] > scoring.scores[2]

\* the consecutive-match bonus of each matched character as C24 states it:
\* half a point for every match of the unbroken run that ends just before it
RunBonus(positions) ==
    [k \in DOMAIN positions |->
        (Scale \div 2) *
        Cardinality({m \in 1..(k - 1) :
                        \A n \in 1..m : positions[k - n] = positions[k] - n})]

\* C24: in the scattered-match path a matched character that directly follows
\* the previous matched character gets a bonus of 0.5, and 0.5 more for each
\* further one of an unbroken run.
C24_ConsecutiveBonus ==
    (/\ scoring.op = "_fuzzy_match_score"
     /\ Scattered(scoring.texts[1], scoring.query))
        => scan(scoring.texts[1], scoring.query, 0, 0, 0, 0, 0, 0)[4]
           = RunBonus(match_positions(lower(scoring.query),
                                      lower(scoring.texts[1]), 1, 1))

(***************************************************************************)
(* Properties of the providers' result lists (checked under SpecScore)     *)
(***************************************************************************)
\* the scores of an application's two fields for the query as search hands it
\* to the scorer, in lower case
NameScore(app_info, query) == _fuzzy_match_score(app_info.display_name, lower(query))
DescriptionScore(app_info, query) == _fuzzy_match_score(app_info.description, lower(query))

\* whether C25 has the application in the results
Included(app_info, query) ==
    /\ app_info.should_show
    /\ \/ NameScore(app_info, query) > 0
       \/ Len(query) <= 3 /\ DescriptionScore(app_info, query) > 0

\* the score C25 gives an application: the name score at full weight, else
\* half the description score; _score_app_match adds its bonus for a short name
Weight(app_info, query) ==
    _score_app_match(app_info.display_name, app_info.description, lower(query),
        IF NameScore(app_info, query) > 0 THEN NameScore(app_info, query)
        ELSE DescriptionScore(app_info, query) \div 2)

\* the application an ApplicationSearchResult stands for
AppOf(item) == AppInfo(item.app, item.file, TRUE)

Candidates ==
    IF scoring.op = "AppSearchProvider.search"
    THEN LET shown == SelectSeq(scoring.texts,
                          LAMBDA a : Included(a, scoring.query))
         IN [i \in DOMAIN shown |->
                <<Weight(shown[i], scoring.query), ApplicationSearchResult(shown[i])>>]
    ELSE LET lines == SelectSeq(split(strip(scoring.texts[1]), "\n"),
                          LAMBDA line : strip(line) # <<>>)
         IN [i \in DOMAIN lines |->
                <<_score_match(lines[i], scoring.query), FileSearchResult(lines[i])>>]

\* C26: a list delivered by AppSearchProvider.search or by a locate
\* completion has at most ResultLimit entries; a candidate stands at the
\* position that counts the candidates scoring higher and the candidates of
\* equal score enumerated before it, and is left out when that position is
\* beyond ResultLimit: the order is by non-increasing score, ties in
\* enumeration order, and nothing left out scores higher than an entry kept.
C26_TopFiftyStable ==
    (scoring.op = "AppSearchProvider.search" \/ scoring.op = "_on_locate_finished") =>
        LET items == scoring.items
            candidates == Candidates
            n == Len(candidates)
            position(i) ==
                1 + Cardinality({j \in 1..n :
                        \/ candidates[j][1] > candidates[i][1]
                        \/ candidates[j][1] = candidates[i][1] /\ j < i})
        IN /\ Len(items) <= ResultLimit
           /\ Len(items) = Min(n, ResultLimit)
           /\ \A i \in 1..n :
                 position(i) <= ResultLimit => items[position(i)] = candidates[i][2]

\* a locate output of more lines than ResultLimit has been cut to ResultLimit
\* entries, the last one kept tying with a line left out
C26_Witness ==
    /\ scoring.op = "_on_locate_finished"
    /\ scoring.texts = <<ManyLinesOutput>>
    /\ scoring.query = <<"q","q">>
    /\ Len(scoring.items) = ResultLimit
    /\ Len(Candidates) = ResultLimit + 2

(***************************************************************************)
(* The levels and their search states (checked under SpecStack)            *)
(***************************************************************************)
\* C27: _stack and _search_states have the same length, so the last search
\* state is the one of the list on top: above Root the top list shows items
\* of that state's original_items only.
C27_StatesMatchLevels ==
    /\ Len(_stack) = Len(_search_states)
    /\ Depth > 1 => Range(TopItems) \subseteq Range(TopOriginals)

\* pop_stack has uncovered a level that shows a filtered part of its actions
C27_Witness ==
    /\ last.op = "pop_stack"
    /\ last.arg
    /\ Depth = 2
    /\ Len(_search_states) = 2
    /\ Last(_search_states)[1] # <<>>
    /\ Len(TopItems) < Len(TopOriginals)

(***************************************************************************)
(* Late completions (checked under Spec)                                   *)
(***************************************************************************)
\* C28: while an action list is shown, before and after the step, no event
\* changes the items of the root list.
C28_RootUntouchedWhileDrilled ==
    [][(Len(_stack) > 1 /\ Len(_stack') > 1)
         => lists'[search_result].items = lists[search_result].items]_vars

\* C29: while the window is hidden after Return or Escape at Root, the root
\* list stays empty and no debounce timer is pending.
C29_EmptyAfterHide ==
    ~visible => (RootItems = <<>> /\ timeouts = {})

\* C30: a process that is neither force-exited nor completed is the one in
\* the handle slot.
C30_SlotHoldsLiveProcess ==
    \A p \in procs : ~p.killed => _current_subprocess = p.id

====
